---- MODULE Spec2Model ----
(***************************************************************************)
(* A model of the SineSynth plugin of src/src/lib.rs: the MIDI note state, *)
(* the phase clock, the attack envelope and the per-frame sample loop.     *)
(*                                                                         *)
(* Numbers.  Every f64 of the engine is kept exactly, on the grid of one   *)
(* sample period of the default rate: a time t is the integer              *)
(* t * 44100, and a parameter value v (an f32, widened to f64 without      *)
(* loss) is the integer v * 44100.  An f64 is a record [inf, v]: a finite  *)
(* grid value, or +infinity (1.0 / 0.0).  The sine itself is not computed: *)
(* an output sample is the record of the factors the code multiplies.      *)
(***************************************************************************)
EXTENDS Integers, Sequences, FiniteSets, TLC

VARIABLES
    sample_rate,      \* SineSynth.sample_rate
    time,             \* SineSynth.time
    note_duration,    \* SineSynth.note_duration
    note,             \* SineSynth.note: <<>> is None, <<n>> is Some(n)
    amplitude,        \* params.amplitude (AtomicFloat, shared)
    attack,           \* params.attack (AtomicFloat, shared)
    pc,               \* the audio thread: "idle", "events_done", "process", "panicked"
    samples,          \* process: buffer.samples()
    output_count,     \* process: outputs.len()
    amplitude_l,      \* process: the local `amplitude`, read once
    per_sample,       \* process: the local `per_sample`
    sample_idx,       \* process: the loop index
    outputs,          \* process: the host's output channels
    delivered,        \* the `events` argument of the process_events call underway
    last_alpha,       \* history: <<alpha>> of the latest Sounding frame
    retrig,           \* history: a note-on arrived while a note was held
    frames,           \* history: the number of Sounding frames generated
    ctl,              \* the control context's latest call, and what it returned
    run               \* history: the frames generated since the latest change

vars == <<sample_rate, time, note_duration, note, amplitude, attack,
          pc, samples, output_count, amplitude_l, per_sample,
          sample_idx, outputs, delivered, last_alpha, retrig, frames,
          ctl, run>>

engine == <<sample_rate, time, note_duration, note>>
params == <<amplitude, attack>>
locals == <<samples, output_count, amplitude_l, per_sample, sample_idx, outputs>>

----------------------------------------------------------------------------
(* Bounds of the model. *)

MaxFrames == 2      \* frames of one buffer
MaxChannels == 2    \* output channels of one buffer
MaxEvents == 2      \* events of one process_events call
MaxSounding == 3    \* Sounding frames of one run

----------------------------------------------------------------------------
(* Numbers. *)

DefaultSampleRate == 44100
OneSecond == DefaultSampleRate
DefaultParam == OneSecond \div 2

Fin(v) == [inf |-> FALSE, v |-> v]
PInf == [inf |-> TRUE, v |-> 0]
Zero == Fin(0)

FAdd(a, b) == IF a.inf \/ b.inf THEN PInf ELSE Fin(a.v + b.v)
FLt(a, b) == IF a.inf THEN FALSE ELSE IF b.inf THEN TRUE ELSE a.v < b.v
FLe(a, b) == a = b \/ FLt(a, b)

\* 1.0 / x on the grid, for the rates the model draws (each divides OneSecond)
FRecip(x) == IF x = 0 THEN PInf ELSE Fin(OneSecond \div x)

\* `x as i8`, and the i8 result of a subtraction in a build that wraps
AsI8(x) == ((x + 128) % 256) - 128
I8Overflows(x) == x < -128 \/ x > 127

----------------------------------------------------------------------------
(* The pitch converter. *)

A4_PITCH == 69

\* The subtraction of line 22 done in u8, without the cast
midi_pitch_to_freq_unsigned(pitch) ==
    LET diff == pitch - A4_PITCH
    IN  [overflow |-> diff < 0, semis |-> diff % 256]

\* The exponent x of 440 * 2^(x/12), and whether computing it overflowed i8.
midi_pitch_to_freq(pitch) ==
    LET diff == AsI8(pitch) - A4_PITCH
    IN  [overflow |-> I8Overflows(diff), semis |-> AsI8(diff)]

----------------------------------------------------------------------------
(* The note state machine. *)

None == <<>>
Some(n) == <<n>>

\* note_on without line 71
note_on_keeps_duration(st, n) == [st EXCEPT !.note = Some(n)]

note_on(st, n) == [note_duration |-> Zero, note |-> Some(n)]

\* note_off without the test of line 76
note_off_any(st, n) == [st EXCEPT !.note = None]

note_off(st, n) ==
    IF st.note = Some(n) THEN [st EXCEPT !.note = None] ELSE st

\* process_midi_event reading the high bit alone: 0x90 and above start a note
process_midi_event_loose(st, data) ==
    IF data[1] = 128 THEN note_off(st, data[2])
    ELSE IF data[1] >= 144 THEN note_on(st, data[2])
    ELSE st

process_midi_event(st, data) ==
    IF data[1] = 128 THEN note_off(st, data[2])
    ELSE IF data[1] = 144 THEN note_on(st, data[2])
    ELSE st

\* One iteration of the loop of process_events
process_event(st, event) ==
    IF event.midi THEN process_midi_event(st, event.data) ELSE st

\* the loop of process_events, last event first
RECURSIVE process_events_reversed(_, _)
process_events_reversed(st, events) ==
    IF events = <<>> THEN st
    ELSE process_event(process_events_reversed(st, Tail(events)), Head(events))

RECURSIVE process_events_loop(_, _)
process_events_loop(st, events) ==
    IF events = <<>> THEN st
    ELSE process_events_loop(process_event(st, Head(events)), Tail(events))

----------------------------------------------------------------------------
(* Output samples. *)

One == [n |-> 1, d |-> 1]

\* alpha of lines 143-147, as the fraction n/d
Envelope(dur, att) ==
    IF FLt(dur, Fin(att)) THEN [n |-> dur.v, d |-> att] ELSE One

\* sin(t * freq * TAU) * alpha * amplitude, as its factors
Signal(t, semis, alpha, amp) ==
    [sounding |-> TRUE, t |-> t, semis |-> semis, alpha |-> alpha, amp |-> amp]

\* the literal 0.0 of the else branch
Silence ==
    [sounding |-> FALSE, t |-> Zero, semis |-> 0, alpha |-> [n |-> 0, d |-> 1], amp |-> 0]

\* a buffer slot process has not written
Unwritten ==
    [sounding |-> FALSE, t |-> PInf, semis |-> 0, alpha |-> [n |-> 0, d |-> 0], amp |-> 0]

----------------------------------------------------------------------------
(* What the host sends. *)

Rates == {DefaultSampleRate, 1, 0, -DefaultSampleRate}
\* set_parameter(index, val): full amplitude, no attack, an attack of one
\* sample period, and two indices that name no parameter
ParamWrites == {<<0, OneSecond>>, <<1, 0>>, <<1, 1>>, <<2, OneSecond>>, <<-1, 0>>}
\* The rates of a host that only sets positive ones
PositiveRates == {r \in Rates : r > 0}
\* Parameter indices and values of the control context: both parameters and two
\* indices that name none; values inside and outside [0, 1]
ParamIndices == {-1, 0, 1, 2}
ParamVals == {-OneSecond, 0, 1, DefaultParam, OneSecond, 2 * OneSecond}
\* A host that does everything, on few inputs
HostRates == {-DefaultSampleRate}
HostWrites == {<<0, OneSecond>>, <<1, 0>>}
HostIndices == {1, 2}
StatusBytes == {128, 144, 176}
NoteBytes == {60, 69, 128}
Velocity == 100

MidiEvent(status, n) == [midi |-> TRUE, data |-> <<status, n, Velocity>>]
SysExEvent == [midi |-> FALSE, data |-> <<0, 0, 0>>]
HostEvents ==
    {MidiEvent(s, n) : s \in StatusBytes, n \in NoteBytes} \cup {SysExEvent}

RECURSIVE SeqsUpTo(_, _)
SeqsUpTo(S, k) ==
    IF k = 0 THEN {<<>>}
    ELSE LET shorter == SeqsUpTo(S, k - 1)
         IN  shorter \cup {Append(s, e) : s \in {x \in shorter : Len(x) = k - 1}, e \in S}

IsNoteOn(event) == event.midi /\ event.data[1] = 144
IsNoteOff(event) == event.midi /\ event.data[1] = 128

----------------------------------------------------------------------------
(* The engine. *)

\* No call of the control context yet
NoCall == [op |-> "none", index |-> 0, val |-> 0, ret |-> 0, text |-> ""]

\* A run of frames: the clocks it starts from, the frames counted since (up
\* to MaxSounding + 1), and whether it started between two process calls
NewRun(t0, d0, ok) == [t0 |-> t0, d0 |-> d0, n |-> 0, ok |-> ok]
CountFrame(r) == [r EXCEPT !.n = IF r.ok /\ r.n <= MaxSounding THEN r.n + 1 ELSE r.n]

NoLocals ==
    /\ samples' = 0
    /\ output_count' = 0
    /\ amplitude_l' = 0
    /\ per_sample' = Zero
    /\ sample_idx' = 0
    /\ outputs' = <<>>

Init ==
    /\ sample_rate = DefaultSampleRate
    /\ time = Zero
    /\ note_duration = Zero
    /\ note = None
    /\ amplitude = DefaultParam
    /\ attack = DefaultParam
    /\ pc = "idle"
    /\ samples = 0
    /\ output_count = 0
    /\ amplitude_l = 0
    /\ per_sample = Zero
    /\ sample_idx = 0
    /\ outputs = <<>>
    /\ delivered = <<>>
    /\ last_alpha = <<>>
    /\ retrig = [st |-> "none", before |-> <<>>]
    /\ frames = 0
    /\ ctl = NoCall
    /\ run = NewRun(Zero, Zero, TRUE)

time_per_sample == FRecip(sample_rate)

\* lines 113-121: the whole loop over the events the host delivers
process_events(events) ==
    /\ pc = "idle"
    /\ pc' = "events_done"
    /\ LET st == process_events_loop(
                     [note_duration |-> note_duration, note |-> note], events)
           on == \E i \in 1..Len(events) : IsNoteOn(events[i])
       IN  /\ note_duration' = st.note_duration
           /\ note' = st.note
           /\ retrig' = IF note # None /\ st.note # None /\ on
                           THEN [st |-> "armed", before |-> last_alpha]
                        ELSE IF st.note = None
                           THEN [st |-> "none", before |-> <<>>]
                        ELSE retrig
    /\ delivered' = events
    /\ run' = NewRun(time, note_duration', TRUE)
    /\ UNCHANGED <<sample_rate, time, params, locals, last_alpha, frames, ctl>>

\* line 121: process_events returns, the host takes its event list back
process_events_return ==
    /\ pc = "events_done"
    /\ pc' = "idle"
    /\ delivered' = <<>>
    /\ UNCHANGED <<engine, params, locals, last_alpha, retrig, frames, ctl, run>>

\* set_sample_rate that also releases the note
set_sample_rate_resets(rate) ==
    /\ pc = "idle"
    /\ sample_rate' = rate
    /\ note' = None
    /\ run' = NewRun(time, note_duration, TRUE)
    /\ UNCHANGED <<time, note_duration, params, pc, locals, delivered,
                   last_alpha, retrig, frames, ctl>>

set_sample_rate(rate) ==
    /\ pc = "idle"
    /\ sample_rate' = rate
    /\ run' = NewRun(time, note_duration, TRUE)
    /\ UNCHANGED <<time, note_duration, note, params, pc, locals, delivered,
                   last_alpha, retrig, frames, ctl>>

\* lines 128-133: the reads before the loop
process_begin(m, n) ==
    /\ pc = "idle"
    /\ note # None => frames + m <= MaxSounding
    /\ pc' = "process"
    /\ samples' = m
    /\ amplitude_l' = amplitude
    /\ output_count' = n
    /\ per_sample' = time_per_sample
    /\ sample_idx' = 0
    /\ outputs' = [c \in 1..n |-> [i \in 1..m |-> Unwritten]]
    /\ UNCHANGED <<engine, params, delivered, last_alpha, retrig, frames, ctl, run>>

\* the loop of lines 156-159 stopping after the first channel
WriteFirst(output_sample) ==
    [c \in 1..output_count |->
        IF c = 1 THEN [outputs[c] EXCEPT ![sample_idx + 1] = output_sample]
        ELSE outputs[c]]

\* lines 156-159: output_sample goes to every channel at sample_idx
WriteAll(output_sample) ==
    [c \in 1..output_count |->
        [outputs[c] EXCEPT ![sample_idx + 1] = output_sample]]

\* lines 138-152 in a build that panics on integer overflow, when it does
frame_panics ==
    /\ note # None
    /\ midi_pitch_to_freq(note[1]).overflow
    /\ pc' = "panicked"
    /\ UNCHANGED <<time, note_duration, sample_idx, outputs, last_alpha,
                   retrig, frames, run>>

\* the Sounding branch with the advance of lines 151-152 before line 138
frame_sounding_advances_first ==
    /\ note # None
    /\ LET freq == midi_pitch_to_freq(note[1])
           alpha == Envelope(note_duration, attack)
       IN  /\ outputs' = WriteAll(Signal(FAdd(time, per_sample), freq.semis,
                                         alpha, amplitude_l))
           /\ last_alpha' = <<alpha>>
    /\ time' = FAdd(time, per_sample)
    /\ note_duration' = FAdd(note_duration, per_sample)
    /\ retrig' = IF retrig.st = "armed"
                    THEN [retrig EXCEPT !.st = "fired"]
                 ELSE [st |-> "none", before |-> <<>>]
    /\ sample_idx' = sample_idx + 1
    /\ frames' = frames + 1
    /\ run' = CountFrame(run)
    /\ pc' = pc

\* lines 138-152: the Sounding branch (an overflowing subtraction has wrapped)
\* lines 138-152 with the phase taken from the index in the buffer instead of
\* the running time
frame_sounding_buffer_phase ==
    /\ note # None
    /\ LET freq == midi_pitch_to_freq(note[1])
           alpha == Envelope(note_duration, attack)
           phase == IF sample_idx = 0 THEN Zero
                    ELSE IF per_sample.inf THEN PInf
                    ELSE Fin(sample_idx * per_sample.v)
       IN  /\ outputs' = WriteAll(Signal(phase, freq.semis, alpha, amplitude_l))
           /\ last_alpha' = <<alpha>>
    /\ time' = FAdd(time, per_sample)
    /\ note_duration' = FAdd(note_duration, per_sample)
    /\ retrig' = IF retrig.st = "armed"
                    THEN [retrig EXCEPT !.st = "fired"]
                 ELSE [st |-> "none", before |-> <<>>]
    /\ sample_idx' = sample_idx + 1
    /\ frames' = frames + 1
    /\ run' = CountFrame(run)
    /\ pc' = pc

\* lines 138-152 with the amplitude loaded again for the frame
frame_sounding_rereads_amplitude ==
    /\ note # None
    /\ LET freq == midi_pitch_to_freq(note[1])
           alpha == Envelope(note_duration, attack)
       IN  /\ outputs' = WriteAll(Signal(time, freq.semis, alpha, amplitude))
           /\ last_alpha' = <<alpha>>
    /\ time' = FAdd(time, per_sample)
    /\ note_duration' = FAdd(note_duration, per_sample)
    /\ retrig' = IF retrig.st = "armed"
                    THEN [retrig EXCEPT !.st = "fired"]
                 ELSE [st |-> "none", before |-> <<>>]
    /\ sample_idx' = sample_idx + 1
    /\ frames' = frames + 1
    /\ run' = CountFrame(run)
    /\ pc' = pc

\* lines 138-152 without the advance of the running time (line 151)
frame_sounding_keeps_time ==
    /\ note # None
    /\ LET freq == midi_pitch_to_freq(note[1])
           alpha == Envelope(note_duration, attack)
       IN  /\ outputs' = WriteAll(Signal(time, freq.semis, alpha, amplitude_l))
           /\ last_alpha' = <<alpha>>
    /\ time' = time
    /\ note_duration' = FAdd(note_duration, per_sample)
    /\ retrig' = IF retrig.st = "armed"
                    THEN [retrig EXCEPT !.st = "fired"]
                 ELSE [st |-> "none", before |-> <<>>]
    /\ sample_idx' = sample_idx + 1
    /\ frames' = frames + 1
    /\ run' = CountFrame(run)
    /\ pc' = pc

frame_sounding ==
    /\ note # None
    /\ LET freq == midi_pitch_to_freq(note[1])
           alpha == Envelope(note_duration, attack)
       IN  /\ outputs' = WriteAll(Signal(time, freq.semis, alpha, amplitude_l))
           /\ last_alpha' = <<alpha>>
    /\ time' = FAdd(time, per_sample)
    /\ note_duration' = FAdd(note_duration, per_sample)
    /\ retrig' = IF retrig.st = "armed"
                    THEN [retrig EXCEPT !.st = "fired"]
                 ELSE [st |-> "none", before |-> <<>>]
    /\ sample_idx' = sample_idx + 1
    /\ frames' = frames + 1
    /\ run' = CountFrame(run)
    /\ pc' = pc

\* the Silent branch with the advance of lines 151-152 moved out of the if
frame_silent_advances ==
    /\ note = None
    /\ outputs' = WriteAll(Silence)
    /\ last_alpha' = <<>>
    /\ sample_idx' = sample_idx + 1
    /\ time' = FAdd(time, per_sample)
    /\ note_duration' = FAdd(note_duration, per_sample)
    /\ run' = CountFrame(run)
    /\ UNCHANGED <<retrig, frames, pc>>

\* lines 153-155: the Silent branch
frame_silent ==
    /\ note = None
    /\ outputs' = WriteAll(Silence)
    /\ last_alpha' = <<>>
    /\ sample_idx' = sample_idx + 1
    /\ run' = CountFrame(run)
    /\ UNCHANGED <<time, note_duration, retrig, frames, pc>>

\* lines 134-160: one iteration of the loop
process_frame ==
    /\ pc = "process"
    /\ sample_idx < samples
    /\ \/ frame_panics
       \/ frame_sounding
       \/ frame_silent
    /\ UNCHANGED <<sample_rate, note, params, samples, output_count,
                   amplitude_l, per_sample, delivered, ctl>>

\* line 161: the loop is over, the buffer goes back to the host
process_return ==
    /\ pc = "process"
    /\ sample_idx = samples
    /\ pc' = "idle"
    /\ NoLocals
    /\ UNCHANGED <<engine, params, delivered, last_alpha, retrig, frames, ctl, run>>

\* lines 187-194.  The control context calls it at any time, also between two
\* frames of process; it commutes with process_events, which reads no parameter.
\* set_parameter on a store that clamps the value into [0, 1]
set_parameter_clamped(index, val) ==
    LET stored == IF val < 0 THEN 0 ELSE IF val > OneSecond THEN OneSecond ELSE val
    IN  /\ pc \in {"idle", "process"}
        /\ amplitude' = IF index = 0 THEN stored ELSE amplitude
        /\ attack' = IF index = 1 THEN stored ELSE attack
        /\ ctl' = [NoCall EXCEPT !.op = "set", !.index = index, !.val = val]
        /\ run' = NewRun(time, note_duration, pc = "idle")
        /\ UNCHANGED <<engine, pc, locals, delivered, last_alpha, retrig, frames>>

set_parameter(index, val) ==
    /\ pc \in {"idle", "process"}
    /\ amplitude' = IF index = 0 THEN val ELSE amplitude
    /\ attack' = IF index = 1 THEN val ELSE attack
    /\ ctl' = [NoCall EXCEPT !.op = "set", !.index = index, !.val = val]
    /\ run' = NewRun(time, note_duration, pc = "idle")
    /\ UNCHANGED <<engine, pc, locals, delivered, last_alpha, retrig, frames>>

\* The steps of one process call
\* get_parameter: the stored value, 0.0 for an index that names no parameter
get_parameter(index) ==
    /\ pc \in {"idle", "process"}
    /\ ctl' = [NoCall EXCEPT !.op = "get", !.index = index,
                             !.ret = IF index = 0 THEN amplitude
                                     ELSE IF index = 1 THEN attack ELSE 0]
    /\ UNCHANGED <<engine, params, pc, locals, delivered, last_alpha, retrig,
                   frames, run>>

\* format!("{:.2}", x): x in hundredths, rounded to the nearest
Hundredths(x) == (2 * 100 * x + OneSecond) \div (2 * OneSecond)
DisplayText(v) == Hundredths((v - DefaultParam) * 2)

\* get_parameter_text: (value - 0.5) * 2 with two decimals, in hundredths; the
\* empty string for an index that names no parameter
get_parameter_text(index) ==
    /\ pc \in {"idle", "process"}
    /\ ctl' = [NoCall EXCEPT !.op = "text", !.index = index,
                             !.ret = IF index = 0 THEN DisplayText(amplitude)
                                     ELSE IF index = 1 THEN DisplayText(attack)
                                     ELSE 0,
                             !.text = IF index \in {0, 1} THEN "{:.2}" ELSE ""]
    /\ UNCHANGED <<engine, params, pc, locals, delivered, last_alpha, retrig,
                   frames, run>>

get_parameter_name(index) ==
    /\ pc \in {"idle", "process"}
    /\ ctl' = [NoCall EXCEPT !.op = "name", !.index = index,
                             !.text = IF index = 0 THEN "Amplitude"
                                      ELSE IF index = 1 THEN "Attack" ELSE ""]
    /\ UNCHANGED <<engine, params, pc, locals, delivered, last_alpha, retrig,
                   frames, run>>

process ==
    \/ \E m \in 0..MaxFrames, n \in 0..MaxChannels : process_begin(m, n)
    \/ process_frame
    \/ process_return

SingleEvents == {<<>>} \cup {<<e>> : e \in HostEvents}
Batches == SeqsUpTo(HostEvents, MaxEvents)
AnyNoteOn == {<<MidiEvent(144, n)>> : n \in 0..255}

\* The host delivers at most one event per block; the control context writes
\* parameters.
Next ==
    \/ \E events \in SingleEvents : process_events(events)
    \/ process_events_return
    \/ process
    \/ \E w \in ParamWrites : set_parameter(w[1], w[2])

Spec == Init /\ [][Next]_vars

\* The host delivers batches of events.
BatchNext ==
    \/ \E events \in Batches : process_events(events)
    \/ process_events_return
    \/ process

BatchSpec == Init /\ [][BatchNext]_vars

\* The host changes the sample rate between blocks.
RateNext ==
    \/ \E rate \in Rates : set_sample_rate(rate)
    \/ \E events \in SingleEvents : process_events(events)
    \/ process_events_return
    \/ process

RateSpec == Init /\ [][RateNext]_vars

\* The host sends a note-on with any note byte.
PitchNext ==
    \/ \E events \in AnyNoteOn : process_events(events)
    \/ process_events_return
    \/ process

PitchSpec == Init /\ [][PitchNext]_vars

\* A host that sets positive sample rates only.
PositiveRateNext ==
    \/ \E rate \in PositiveRates : set_sample_rate(rate)
    \/ \E events \in SingleEvents : process_events(events)
    \/ process_events_return
    \/ process

PositiveRateSpec == Init /\ [][PositiveRateNext]_vars

\* The control context alone: every index with every value.
ParamNext ==
    \/ \E index \in ParamIndices, val \in ParamVals : set_parameter(index, val)
    \/ \E index \in ParamIndices : get_parameter(index)
    \/ \E index \in ParamIndices : get_parameter_text(index)
    \/ \E index \in ParamIndices : get_parameter_name(index)

ParamSpec == Init /\ [][ParamNext]_vars

\* Every operation of the host and of the control context, on few inputs.
HostNoteEvents == {<<MidiEvent(144, 60)>>, <<MidiEvent(128, 60)>>,
                   <<MidiEvent(176, 60)>>}

HostNext ==
    \/ \E rate \in HostRates : set_sample_rate(rate)
    \/ \E events \in HostNoteEvents : process_events(events)
    \/ process_events_return
    \/ process
    \/ \E w \in HostWrites : set_parameter(w[1], w[2])
    \/ \E index \in HostIndices : get_parameter(index)
    \/ \E index \in HostIndices : get_parameter_text(index)
    \/ \E index \in HostIndices : get_parameter_name(index)

HostSpec == Init /\ [][HostNext]_vars

----------------------------------------------------------------------------
(* Properties. *)

\* A step that is one whole process_events call; delivered' is what it was given
EventsStep == pc = "idle" /\ pc' = "events_done"

\* A step that generates one frame, at index sample_idx + 1 of every channel
FrameStep == pc = "process" /\ pc' = "process" /\ sample_idx' = sample_idx + 1

\* A step of a process call that does not fault
ProcessStep ==
    \/ pc = "idle" /\ pc' = "process"
    \/ FrameStep
    \/ pc = "process" /\ pc' = "idle"

NoteOf(event) == event.data[2]
Last(events) == events[Len(events)]

\* a/b < c/d for positive denominators
AlphaLt(a, b) == a.n * b.d < b.n * a.d

\* The frames process has written so far are all the literal 0.0
WrittenSilent ==
    \A c \in 1..output_count, i \in 1..sample_idx : outputs[c][i] = Silence

\* C1 (first half): once process_events has applied a note-on with note n as its
\* last event, the engine is Sounding(n) and note_duration is 0, whatever the
\* state before.
C1_NoteOn ==
    (pc = "events_done" /\ delivered # <<>> /\ IsNoteOn(Last(delivered)))
        => /\ note = Some(NoteOf(Last(delivered)))
           /\ note_duration = Zero

\* C1 (second half): with attack > 0, the first frame generated after a note-on
\* retriggered a held note has the envelope multiplier 0, which is below the
\* multiplier 1.0 of the last frame generated before it.
C1_Retrigger ==
    (FrameStep /\ retrig.st = "armed" /\ attack > 0)
        => /\ last_alpha'[1].n = 0
           /\ last_alpha'[1].d > 0
           /\ retrig.before = <<One>> => AlphaLt(last_alpha'[1], retrig.before[1])

\* C1: a note-on leaves the engine Sounding(n) with note_duration 0, and the
\* envelope restarts from 0 when a held note is retriggered.
C1_NoteOnRestartsEnvelope == []C1_NoteOn /\ [][C1_Retrigger]_vars

C1_Witness ==
    /\ retrig.st = "fired"
    /\ retrig.before = <<One>>
    /\ last_alpha # <<>>
    /\ last_alpha[1].n = 0
    /\ last_alpha[1].d > 0

\* C2 (a): a call with the single event note-off(m) silences the engine when it
\* is Sounding(m) and changes nothing otherwise.
C2_NoteOff ==
    (EventsStep /\ Len(delivered') = 1 /\ IsNoteOff(delivered'[1]))
        => /\ note = Some(NoteOf(delivered'[1])) => note' = None
           /\ note # Some(NoteOf(delivered'[1])) => note' = note
           /\ UNCHANGED <<note_duration, time, sample_rate, amplitude, attack>>

\* C2 (b): note-on(n) followed by note-off(n) leaves the engine Silent.
C2_OnOff ==
    (/\ pc = "events_done"
     /\ Len(delivered) >= 2
     /\ IsNoteOn(delivered[Len(delivered) - 1])
     /\ IsNoteOff(Last(delivered))
     /\ NoteOf(delivered[Len(delivered) - 1]) = NoteOf(Last(delivered)))
        => note = None

\* C2 (c): while the engine is Silent every frame process writes is 0.0.
C2_SilentFrames == (pc = "process" /\ note = None) => WrittenSilent

\* C2: note-off(m) silences exactly Sounding(m), a mismatched or stale note-off
\* changes nothing, and after note-on(n), note-off(n) the output is 0.0.
C2_NoteOffMatches == [](C2_OnOff /\ C2_SilentFrames) /\ [][C2_NoteOff]_vars

C2_Witness ==
    /\ pc = "events_done"
    /\ delivered = <<MidiEvent(144, 60), MidiEvent(128, 69)>>
    /\ note = Some(60)

\* What a batch of events must leave: the last note-on decides the note, unless
\* a later note-off names it; with no note-on, a note-off of the held note
\* silences it.
NoteOns(events) == {i \in 1..Len(events) : IsNoteOn(events[i])}
LastNoteOn(events) ==
    CHOOSE k \in NoteOns(events) : \A j \in NoteOns(events) : j <= k
Released(events, from, n) ==
    \E i \in from..Len(events) : IsNoteOff(events[i]) /\ NoteOf(events[i]) = n
ExpectedNote(before, events) ==
    IF NoteOns(events) = {}
    THEN IF before # None /\ Released(events, 1, before[1]) THEN None ELSE before
    ELSE LET k == LastNoteOn(events)
         IN  IF Released(events, k + 1, NoteOf(events[k]))
             THEN None ELSE Some(NoteOf(events[k]))
ExpectedDuration(before, events) ==
    IF NoteOns(events) = {} THEN before ELSE Zero

\* C3 (a): one process_events call leaves what its events, taken in the order
\* delivered, must leave.
C3_Order ==
    EventsStep
        => /\ note' = ExpectedNote(note, delivered')
           /\ note_duration' = ExpectedDuration(note_duration, delivered')

\* C3 (b): every frame of a buffer reflects the note state the events left.
C3_Frames ==
    pc = "process"
        => \A c \in 1..output_count, i \in 1..sample_idx :
               /\ outputs[c][i].sounding = (note # None)
               /\ note # None
                    => outputs[c][i].semis = midi_pitch_to_freq(note[1]).semis

\* C3: the events of one call are applied in the order delivered, and all of
\* them before any frame of the following process call.
C3_EventsInOrder == []C3_Frames /\ [][C3_Order]_vars

C3_Witness ==
    /\ pc = "events_done"
    /\ delivered = <<MidiEvent(128, 60), MidiEvent(144, 60)>>
    /\ note = Some(60)
    /\ frames > 0

Unrecognized(event) == ~event.midi \/ event.data[1] \notin {128, 144}
OtherStatusBytes == {0, 127, 129, 143, 145, 176, 255}
DataBytes == {0, 60, 69, 127, 128, 255}

\* C4 (a): a call whose events are all unrecognized changes nothing.
C4_Step ==
    (EventsStep /\ delivered' # <<>>
        /\ \A i \in 1..Len(delivered') : Unrecognized(delivered'[i]))
        => UNCHANGED <<note, note_duration, time, sample_rate, amplitude, attack>>

\* C4 (b): in every state, a MIDI event with a status byte other than 128 and
\* 144 leaves the note state as it is, whatever its data bytes.
C4_AnyStatus ==
    LET st == [note_duration |-> note_duration, note |-> note]
    IN  \A s \in OtherStatusBytes, b1 \in DataBytes, b2 \in DataBytes :
            process_midi_event(st, <<s, b1, b2>>) = st

\* C4: unrecognized and non-MIDI events change nothing; the call they arrive in
\* completes (EventsStep ends in "events_done", process_events has no step that
\* faults).
C4_UnrecognizedIgnored == []C4_AnyStatus /\ [][C4_Step]_vars

C4_Witness ==
    /\ pc = "events_done"
    /\ delivered = <<MidiEvent(176, 60)>>
    /\ note = Some(69)
    /\ frames > 0

\* C5 (a): a step of a process call made while Silent leaves time and
\* note_duration alone, and a frame it generates is 0.0 in every channel.
C5_Step ==
    (ProcessStep /\ note = None)
        => /\ UNCHANGED <<time, note_duration>>
           /\ FrameStep =>
                \A c \in 1..output_count : outputs'[c][sample_idx + 1] = Silence

\* C5 (b): while Silent, all the frames written so far are 0.0.
C5_Buffer == (pc = "process" /\ note = None) => WrittenSilent

\* C5: a Silent engine writes 0.0 to every frame of every channel and advances
\* neither time nor note_duration.
C5_SilentWritesZero == []C5_Buffer /\ [][C5_Step]_vars

C5_Witness ==
    /\ pc = "process"
    /\ note = None
    /\ frames > 0
    /\ samples = MaxFrames
    /\ sample_idx = samples
    /\ output_count = MaxChannels
    /\ outputs[MaxChannels][MaxFrames] = Silence

\* C6 (a): at every frame index all the channels hold the same value, and a
\* frame that was generated is in each of them.
C6_Channels ==
    pc = "process"
        => /\ \A c1 \in 1..output_count, c2 \in 1..output_count, i \in 1..samples :
                 outputs[c1][i] = outputs[c2][i]
           /\ \A c \in 1..output_count, i \in 1..sample_idx :
                 outputs[c][i] # Unwritten

\* C6 (b): a frame advances the clock once, however many channels there are.
C6_Clock ==
    FrameStep
        => time' = IF note # None THEN FAdd(time, per_sample) ELSE time

\* C6: the signal is broadcast to every channel, and the clock advances once
\* per frame.
C6_MonoBroadcast == []C6_Channels /\ [][C6_Clock]_vars

C6_Witness ==
    /\ pc = "process"
    /\ note # None
    /\ samples = 2
    /\ sample_idx = samples
    /\ output_count = 2
    /\ outputs[1][1] # outputs[1][2]
    /\ outputs[2][2].sounding

\* The first frame of a freshly constructed engine at 44100 Hz, with amplitude
\* 1.0 and attack 0.0, after note-on(69)
C7_FirstFrame ==
    /\ FrameStep
    /\ frames = 0
    /\ sample_idx = 0
    /\ time = Zero
    /\ sample_rate = DefaultSampleRate
    /\ per_sample = Fin(1)
    /\ amplitude_l = OneSecond
    /\ attack = 0
    /\ note = Some(69)

\* C7 as stated: that frame is sin(1/44100 * 440 * TAU) * 1 * 1.0, the clock
\* being at one sample period.
C7_FirstFrameAtOnePeriod ==
    [][C7_FirstFrame
        => \A c \in 1..output_count :
               outputs'[c][1] = Signal(Fin(1), 0, One, OneSecond)]_vars

\* C7 as amended: that frame is sin(0 * 440 * TAU) * 1 * 1.0, the clock being
\* read before it is advanced; it is at one sample period after the frame.
C7_FirstFrameAtZero ==
    [][C7_FirstFrame
        => /\ \A c \in 1..output_count :
                 outputs'[c][1] = Signal(Zero, 0, One, OneSecond)
           /\ time' = Fin(1)]_vars

C7_Witness ==
    /\ pc = "process"
    /\ frames = 1
    /\ sample_idx = 1
    /\ output_count >= 1
    /\ sample_rate = DefaultSampleRate
    /\ note = Some(69)
    /\ outputs[1][1] = Signal(Zero, 0, One, OneSecond)
    /\ time = Fin(1)

\* C8: sample generation never faults, and the i8 subtraction never overflows
\* for the note a frame is generated for, whatever bytes the events carried.
C8_NeverFaults ==
    /\ pc # "panicked"
    /\ (pc = "process" /\ sample_idx < samples /\ note # None)
          => ~midi_pitch_to_freq(note[1]).overflow

\* C9: for a note n in 0..127 the conversion does not overflow or panic, and
\* the semitone offset of every frame generated for it is n - 69: within
\* -69..58, negative exactly when n < 69, and 0 for n = 69.
C9_OffsetInRange ==
    (note # None /\ note[1] \in 0..127)
        => /\ pc # "panicked"
           /\ ~midi_pitch_to_freq(note[1]).overflow
           /\ pc = "process" =>
                \A c \in 1..output_count, i \in 1..sample_idx :
                    /\ outputs[c][i].semis = note[1] - 69
                    /\ outputs[c][i].semis \in -69..58
                    /\ outputs[c][i].semis < 0 <=> note[1] < 69
                    /\ note[1] = 69 => outputs[c][i].semis = 0

C9_Witness ==
    /\ pc = "process"
    /\ sample_idx >= 1
    /\ output_count >= 1
    /\ note = Some(0)
    /\ outputs[1][1].semis = -69

\* C10: note_duration is never negative, and every frame generated while a
\* note is held leaves it strictly greater than it was.
C10_DurationGrows ==
    /\ [](FLe(Zero, note_duration))
    /\ [][(FrameStep /\ note # None)
             => FLt(note_duration, note_duration')]_vars


\* C11: no operation decreases or resets the running time, and every frame
\* generated while a note is held advances it by exactly one sample period of
\* the rate in force for that process call.
C11_TimeMonotone ==
    [][/\ FLe(time, time')
       /\ (FrameStep /\ note # None) => time' = FAdd(time, FRecip(sample_rate))]_vars

\* A call of the control context that writes, and one that reads a value
SetStep == ctl' # ctl /\ ctl'.op = "set"
GetStep == ctl' # ctl /\ ctl'.op = "get"

\* C12: set_parameter(0, v) stores v as the amplitude and leaves the attack,
\* set_parameter(1, v) stores v as the attack and leaves the amplitude, any
\* other index stores nothing; get_parameter right after set_parameter on the
\* same index returns the value written, unclamped, and 0.0 for an index that
\* names no parameter.
C12_Set ==
    SetStep =>
        /\ amplitude' = IF ctl'.index = 0 THEN ctl'.val ELSE amplitude
        /\ attack' = IF ctl'.index = 1 THEN ctl'.val ELSE attack

C12_Get ==
    GetStep =>
        /\ (ctl.op = "set" /\ ctl.index = ctl'.index /\ ctl.index \in {0, 1})
               => ctl'.ret = ctl.val
        /\ ctl'.index \notin {0, 1} => ctl'.ret = 0
        /\ UNCHANGED params

C12_ParametersRoundTrip == [][C12_Set /\ C12_Get]_vars

\* A value above 1 read back from the attack while a value below 0 is stored
\* as the amplitude
C12_Witness ==
    /\ ctl = [NoCall EXCEPT !.op = "get", !.index = 1, !.ret = 2 * OneSecond]
    /\ amplitude = -OneSecond
    /\ attack = 2 * OneSecond

\* k sample periods of the rate in force
Periods(k) ==
    IF k = 0 THEN Zero
    ELSE IF FRecip(sample_rate).inf THEN PInf
    ELSE Fin(k * FRecip(sample_rate).v)

\* Frame k + 1 of one process call that starts where the run started
OneCallFrame(k) ==
    IF note = None THEN Silence
    ELSE Signal(FAdd(run.t0, Periods(k)), midi_pitch_to_freq(note[1]).semis,
                Envelope(FAdd(run.d0, Periods(k)), attack), amplitude)

\* The run started between two process calls and all its frames are counted
Tracked == run.ok /\ run.n <= MaxSounding

\* C13: with no event and no parameter or sample-rate change in between,
\* frames generated over several process calls are the frames one process
\* call of the same total length generates, and they leave the same note
\* state, time and note_duration: frame k of the run and the clocks after it
\* depend on where the run started and on k only, however the run is split
\* into calls, empty ones included.
C13_Clocks ==
    Tracked =>
        /\ time = IF note = None THEN run.t0 ELSE FAdd(run.t0, Periods(run.n))
        /\ note_duration =
               IF note = None THEN run.d0 ELSE FAdd(run.d0, Periods(run.n))

C13_Frame ==
    /\ (FrameStep /\ Tracked /\ output_count > 0)
           => outputs'[1][sample_idx + 1] = OneCallFrame(run.n)
    /\ ProcessStep => note' = note

C13_SplitEquivalence == []C13_Clocks /\ [][C13_Frame]_vars

\* The second frame of a call whose run already had two frames from earlier
\* calls
C13_Witness ==
    /\ pc = "process"
    /\ Tracked
    /\ note # None
    /\ output_count > 0
    /\ sample_idx = 1
    /\ run.n = 3
    /\ outputs[1][1] = [OneCallFrame(2) EXCEPT !.amp = amplitude_l]

\* C14: every frame generated while a note is held is scaled by
\* note_duration / attack when note_duration < attack and by 1.0 otherwise,
\* with the note_duration from before the frame's advance; with an attack of
\* 0 the multiplier is 1.0 from the first frame on and nothing is divided by
\* zero.
C14_Step ==
    (FrameStep /\ note # None) =>
        /\ last_alpha' = <<IF FLt(note_duration, Fin(attack))
                              THEN [n |-> note_duration.v, d |-> attack]
                           ELSE One>>
        /\ attack = 0 => last_alpha' = <<One>>
        /\ last_alpha'[1].d # 0

C14_EnvelopeMultiplier == [][C14_Step]_vars

\* C15: with a constant positive attack, the envelope multiplier of the frames
\* generated after a note-on and before any further note-on starts at 0, never
\* decreases, stays within [0, 1], is below 1.0 for every frame whose
\* note_duration is below the attack and exactly 1.0 for every later frame,
\* however the frames are split into process calls.
C15_Step ==
    (FrameStep /\ note # None /\ attack > 0) =>
        LET alpha == last_alpha'[1]
        IN  /\ (run.ok /\ run.n = 0 /\ run.d0 = Zero) => alpha.n = 0
            /\ (run.ok /\ run.n > 0 /\ last_alpha # <<>>) => ~AlphaLt(alpha, last_alpha[1])
            /\ ~AlphaLt(alpha, [n |-> 0, d |-> 1])
            /\ ~AlphaLt(One, alpha)
            /\ IF FLt(note_duration, Fin(attack)) THEN AlphaLt(alpha, One)
               ELSE alpha = One

C15_EnvelopeRamp == [][C15_Step]_vars

\* C16: a zero or negative sample rate given to set_sample_rate does not reach
\* the per-frame increment: while such a rate is stored, no frame adds an
\* infinite or a negative amount to time or to note_duration.
C16_Step ==
    (FrameStep /\ note # None /\ sample_rate <= 0) =>
        /\ ~time'.inf /\ FLe(time, time')
        /\ ~note_duration'.inf /\ FLe(note_duration, note_duration')

C16_BadRateNotPropagated == [][C16_Step]_vars

\* C17: only a process_events call that delivers a note-on or a note-off
\* changes whether and which note is held: process, set_sample_rate and the
\* parameter calls (get, set, display text, name) leave it; and only
\* set_parameter changes the stored amplitude and attack: process and the
\* note events leave them.
C17_Step ==
    /\ note' # note =>
           /\ EventsStep
           /\ \E i \in 1..Len(delivered') :
                  IsNoteOn(delivered'[i]) \/ IsNoteOff(delivered'[i])
    /\ <<amplitude, attack>>' # <<amplitude, attack>> => SetStep
    /\ (EventsStep \/ ProcessStep \/ pc' = "panicked") =>
           UNCHANGED <<amplitude, attack>>

C17_NoteAndParametersIsolated == [][C17_Step]_vars

\* A held note that has seen a parameter write, a rate change, a frame and a
\* display-text call
C17_Witness ==
    /\ pc = "idle"
    /\ note = Some(60)
    /\ amplitude = OneSecond
    /\ sample_rate = -DefaultSampleRate
    /\ run.n > 0
    /\ ctl.op = "text"

\* C18: while the control context writes parameters during a process call,
\* the call scales every frame of its buffer by the amplitude stored when it
\* began, so a write of the amplitude shows from the next call on; the attack
\* is loaded for each frame, so a write of the attack shows in the frames
\* generated after it in the same buffer; each load gives the value stored
\* at that moment, the old one or the new one.
C18_OneAmplitude ==
    pc = "process" =>
        \A c \in 1..output_count, i \in 1..sample_idx :
            outputs[c][i].sounding => outputs[c][i].amp = amplitude_l

C18_Loads ==
    /\ (pc = "idle" /\ pc' = "process") => amplitude_l' = amplitude
    /\ (pc = "process" /\ pc' = "process") => amplitude_l' = amplitude_l
    /\ (FrameStep /\ note # None /\ output_count > 0) =>
           /\ outputs'[1][sample_idx + 1].alpha = Envelope(note_duration, attack)
           /\ outputs'[1][sample_idx + 1].amp = amplitude_l

C18_ConcurrentParameterReads == []C18_OneAmplitude /\ [][C18_Loads]_vars

\* A buffer whose call began with the default parameters: the amplitude was
\* written during the call and both frames keep the old one; the attack was
\* written after the first frame and the second frame is at full scale
C18_Witness ==
    /\ pc = "process"
    /\ output_count > 0
    /\ sample_idx = 2
    /\ amplitude = OneSecond
    /\ attack # DefaultParam
    /\ outputs[1][1].sounding
    /\ outputs[1][1].alpha = [n |-> 0, d |-> DefaultParam]
    /\ outputs[1][1].amp = DefaultParam
    /\ outputs[1][2].alpha = One
    /\ outputs[1][2].amp = DefaultParam

\* C19: starting from the default engine and under positive sample rates,
\* the running time is at least the note duration in every reachable state.
C19_TimeAtLeastDuration == FLe(note_duration, time)

\* A retriggered note some frames old, at a rate the host changed: the time
\* is ahead of the duration
C19_Witness ==
    /\ note # None
    /\ sample_rate = 1
    /\ FLt(Zero, note_duration)
    /\ FLt(note_duration, time)

====
